---- MODULE Spec2Model ----
(***************************************************************************)
(* Model of src/app.py, the Streamlit logistics dashboard.                 *)
(*                                                                         *)
(* The script is executed top to bottom once per session start and once    *)
(* per widget event.  One execution is one action: it loads the dataset    *)
(* (st.cache_data), derives the OnTime column, reads the four sidebar       *)
(* multiselects, filters, computes the KPIs and builds the first chart.     *)
(*                                                                         *)
(* Numbers are exact rationals [kind |-> "num", n, d] in lowest terms; the  *)
(* float not-a-number that numpy/pandas produce is [kind |-> "nan"].        *)
(***************************************************************************)
EXTENDS Integers, Sequences, FiniteSets, TLC

VARIABLES
    Train_csv,            \* rows of the file read by pd.read_csv
    cache,                \* what st.cache_data holds for load_data()
    df,                   \* the script's dataframe, with the OnTime column
    shipment_mode,        \* value of the "Select Shipment Mode" multiselect
    warehouse,            \* value of the "Select Warehouse" multiselect
    product_importance,   \* value of the "Select Product Importance" multiselect
    gender,               \* value of the "Select Gender" multiselect
    filtered_df,
    total_orders,
    on_time_rate,
    late_rate,
    avg_discount_late,
    avg_calls_late,
    high_value_late_rate,
    fig1,                 \* traces of px.histogram(x=Mode_of_Shipment, color=OnTime)
    error                 \* exception that halted the last script run, or "none"

vars == <<Train_csv, cache, df, shipment_mode, warehouse, product_importance,
          gender, filtered_df, total_orders, on_time_rate, late_rate,
          avg_discount_late, avg_calls_late, high_value_late_rate, fig1, error>>

----------------------------------------------------------------------------
(* Bounds of the model *)

\* Largest number of rows of Train.csv
MaxRows == 4

\* Rows Train.csv is drawn from.  Each of the four filterable columns takes
\* two values and each can alone exclude a row; costs repeat so that medians
\* tie; both delivery outcomes occur, with different calls and discounts.
SampleRows ==
    { [Mode_of_Shipment |-> "Ship",   Warehouse_block |-> "A", Product_importance |-> "low",
       Gender |-> "F", Customer_care_calls |-> 5, Cost_of_the_Product |-> 10,
       Discount_offered |-> 20, Reached_on_Time_Y_N |-> 0],
      [Mode_of_Shipment |-> "Flight", Warehouse_block |-> "A", Product_importance |-> "low",
       Gender |-> "F", Customer_care_calls |-> 3, Cost_of_the_Product |-> 20,
       Discount_offered |-> 10, Reached_on_Time_Y_N |-> 1],
      [Mode_of_Shipment |-> "Ship",   Warehouse_block |-> "B", Product_importance |-> "high",
       Gender |-> "F", Customer_care_calls |-> 2, Cost_of_the_Product |-> 30,
       Discount_offered |-> 5, Reached_on_Time_Y_N |-> 0],
      [Mode_of_Shipment |-> "Ship",   Warehouse_block |-> "A", Product_importance |-> "low",
       Gender |-> "M", Customer_care_calls |-> 6, Cost_of_the_Product |-> 10,
       Discount_offered |-> 40, Reached_on_Time_Y_N |-> 1] }

\* Every content of Train.csv of one to MaxRows rows.  The file has data rows,
\* so that read_csv types the numeric columns as integers.
Datasets == UNION { [1..k -> SampleRows] : k \in 1..MaxRows }

----------------------------------------------------------------------------
(* Values *)

NaN == [kind |-> "nan", n |-> 0, d |-> 1]

\* A script variable that no statement has assigned in the current run
Unset == [kind |-> "unset", n |-> 0, d |-> 1]

RECURSIVE GCD(_, _)
GCD(a, b) == IF b = 0 THEN a ELSE GCD(b, a % b)

Rat(n, d) == LET g == GCD(n, d) IN [kind |-> "num", n |-> n \div g, d |-> d \div g]

\* The value of an expression whose evaluation raises an exception
Raise == [kind |-> "raise", n |-> 0, d |-> 1]

Raised(x) == x.kind = "raise"

\* numpy integer / int: a zero divisor gives nan (and a RuntimeWarning)
TrueDivide(a, b) == IF b = 0 THEN NaN ELSE Rat(a, b)

\* x * c for a float x
Times(x, c) == IF x.kind = "num" THEN Rat(x.n * c, x.d) ELSE x

\* c - x for a float x that is at most c
Minus(c, x) == IF x.kind = "num" THEN Rat(c * x.d - x.n, x.d) ELSE x

RECURSIVE SumSeq(_)
SumSeq(s) == IF Len(s) = 0 THEN 0 ELSE Head(s) + SumSeq(Tail(s))

\* Series.sum()
Sum(s) == SumSeq(s)

\* Mutant: a mean that raises on an empty series, as statistics.mean does
Mean_RaisesOnEmpty(s) == IF Len(s) = 0 THEN Raise ELSE Rat(SumSeq(s), Len(s))

\* Series.mean(): nan for an empty series
Mean(s) == IF Len(s) = 0 THEN NaN ELSE Rat(SumSeq(s), Len(s))

RECURSIVE Insert(_, _)
Insert(x, s) ==
    IF Len(s) = 0 THEN <<x>>
    ELSE IF x <= Head(s) THEN <<x>> \o s
    ELSE <<Head(s)>> \o Insert(x, Tail(s))

RECURSIVE Sorted(_)
Sorted(s) == IF Len(s) = 0 THEN << >> ELSE Insert(Head(s), Sorted(Tail(s)))

\* Series.median(): middle value, or the mean of the two middle values
Median(s) ==
    LET n == Len(s)
        t == Sorted(s)
    IN  IF n = 0 THEN NaN
        ELSE IF n % 2 = 1 THEN Rat(t[(n + 1) \div 2], 1)
        ELSE Rat(t[n \div 2] + t[n \div 2 + 1], 2)

\* c > m for an integer c and a float m; every comparison with nan is False
Greater(c, m) == m.kind = "num" /\ c * m.d > m.n

----------------------------------------------------------------------------
(* Dataframe operations *)

\* frame[mask]: the rows whose mask entry is True, in their original order
RECURSIVE Select(_, _)
Select(rows, mask) ==
    IF Len(rows) = 0 THEN << >>
    ELSE IF Head(mask) THEN <<Head(rows)>> \o Select(Tail(rows), Tail(mask))
    ELSE Select(Tail(rows), Tail(mask))

\* frame[col]
Column(rows, col) == [i \in 1..Len(rows) |-> rows[i][col]]

\* series == value, element-wise
Equals(series, value) == [i \in 1..Len(series) |-> series[i] = value]

\* mask & mask, element-wise
And(m1, m2) == [i \in 1..Len(m1) |-> m1[i] /\ m2[i]]

Range(s) == { s[i] : i \in 1..Len(s) }

RECURSIVE UniqueUpTo(_, _)
UniqueUpTo(s, k) ==
    IF k = 0 THEN << >>
    ELSE LET init == UniqueUpTo(s, k - 1)
         IN  IF s[k] \in Range(init) THEN init ELSE Append(init, s[k])

\* Mutant: the scan stops one row short
Unique_SkipsLast(s) == IF Len(s) = 0 THEN << >> ELSE UniqueUpTo(s, Len(s) - 1)

\* Series.unique(): the distinct values in order of first appearance
RECURSIVE Unique(_)
Unique(s) ==
    IF Len(s) = 0 THEN << >>
    ELSE LET init == Unique(SubSeq(s, 1, Len(s) - 1))
             last == s[Len(s)]
         IN  IF last \in Range(init) THEN init ELSE Append(init, last)

\* Mutant: an empty selection is taken to mean "no filter"
IsIn_EmptyAcceptsAll(v, values) == values = {} \/ v \in values

\* Series.isin(values), for one element
IsIn(v, values) == v \in values

\* Series.isin(values)
IsInMask(series, values) == [i \in 1..Len(series) |-> IsIn(series[i], values)]

NotLoaded == [loaded |-> FALSE, rows |-> << >>]

\* Mutant: the cached frame is the object the script filtered in place
load_data_SharesFrame(c) ==
    IF c.loaded
    THEN [i \in 1..Len(filtered_df) |->
            [f \in DOMAIN filtered_df[i] \ {"OnTime"} |-> filtered_df[i][f]]]
    ELSE Train_csv

\* @st.cache_data load_data(): reads the file on the first call, afterwards
\* returns a copy of the cached frame
load_data(c) == IF c.loaded THEN c.rows ELSE Train_csv

\* df["OnTime"] = df["Reached.on.Time_Y.N"]
AddOnTime(rows) ==
    [i \in 1..Len(rows) |->
        [Mode_of_Shipment    |-> rows[i].Mode_of_Shipment,
         Warehouse_block     |-> rows[i].Warehouse_block,
         Product_importance  |-> rows[i].Product_importance,
         Gender              |-> rows[i].Gender,
         Customer_care_calls |-> rows[i].Customer_care_calls,
         Cost_of_the_Product |-> rows[i].Cost_of_the_Product,
         Discount_offered    |-> rows[i].Discount_offered,
         Reached_on_Time_Y_N |-> rows[i].Reached_on_Time_Y_N,
         OnTime              |-> rows[i].Reached_on_Time_Y_N]]

\* options= / default= of the four multiselects
Options(frame, col) == Unique(Column(frame, col))

\* Mutant: the last mask is left out of the conjunction
ApplyFilters_SkipsGender(frame, sm, wh, pi, ge) ==
    Select(frame,
           And(And(IsInMask(Column(frame, "Mode_of_Shipment"), sm),
                   IsInMask(Column(frame, "Warehouse_block"), wh)),
               IsInMask(Column(frame, "Product_importance"), pi)))

\* Apply Filters
ApplyFilters(frame, sm, wh, pi, ge) ==
    Select(frame,
           And(And(And(IsInMask(Column(frame, "Mode_of_Shipment"), sm),
                       IsInMask(Column(frame, "Warehouse_block"), wh)),
                   IsInMask(Column(frame, "Product_importance"), pi)),
               IsInMask(Column(frame, "Gender"), ge)))

\* Mutant: the on-time rows are taken for the late ones
LateRows_OnTime(view) == Select(view, Equals(Column(view, "OnTime"), 1))

\* filtered_df[filtered_df["OnTime"] == 0]
LateRows(view) == Select(view, Equals(Column(view, "OnTime"), 0))

\* series > m, element-wise
GreaterMask(series, m) == [i \in 1..Len(series) |-> Greater(series[i], m)]

\* filtered_df[Cost > filtered_df[Cost].median()]
HighValue(view) ==
    Select(view, GreaterMask(Column(view, "Cost_of_the_Product"),
                             Median(Column(view, "Cost_of_the_Product"))))

\* Mutant: color= is dropped, all rows go to one trace
Histogram_NoColor(view) ==
    IF Len(view) = 0 THEN << >>
    ELSE <<[name |-> view[1].OnTime, x |-> Column(view, "Mode_of_Shipment")]>>

\* px.histogram(x="Mode_of_Shipment", color="OnTime"): one trace per OnTime
\* value present, holding the x values of its rows
Histogram(view) ==
    LET colors == Unique(Column(view, "OnTime"))
    IN  [k \in 1..Len(colors) |->
            [name |-> colors[k],
             x    |-> Column(Select(view, Equals(Column(view, "OnTime"), colors[k])),
                             "Mode_of_Shipment")]]

\* The bars drawn for the traces: one per (x value, trace) that has samples
Bars(fig) ==
    LET pairs == UNION { { <<fig[k].x[i], fig[k].name>> : i \in 1..Len(fig[k].x) }
                         : k \in 1..Len(fig) }
    IN  [p \in pairs |->
            LET k == CHOOSE j \in 1..Len(fig) : fig[j].name = p[2]
            IN  Cardinality({ i \in 1..Len(fig[k].x) : fig[k].x[i] = p[1] })]

----------------------------------------------------------------------------
(* One execution of the script *)

\* The KPI expressions, lines 87-93
OnTimeRate(view) == Times(TrueDivide(Sum(Column(view, "OnTime")), Len(view)), 100)

LateRate(otr) == Minus(100, otr)

AvgDiscountLate(view) == Mean(Column(LateRows(view), "Discount_offered"))

AvgCallsLate(view) == Mean(Column(LateRows(view), "Customer_care_calls"))

HighValueLateRate(view) == Times(Minus(1, Mean(Column(HighValue(view), "OnTime"))), 100)

\* name = expression: executed only if the script is still running, and binding
\* nothing if the expression raises, which halts the script
Assign(running, value) == IF running /\ ~Raised(value) THEN value ELSE Unset

\* Lines 35-128 with the given widget values
Script(frame, sm, wh, pi, ge) ==
    /\ cache' = [loaded |-> TRUE, rows |-> load_data(cache)]
    /\ df' = frame
    /\ shipment_mode' = sm
    /\ warehouse' = wh
    /\ product_importance' = pi
    /\ gender' = ge
    /\ filtered_df' = ApplyFilters(frame, sm, wh, pi, ge)
    /\ total_orders' = Len(filtered_df')
    /\ on_time_rate' = Assign(TRUE, OnTimeRate(filtered_df'))
    /\ late_rate' = Assign(on_time_rate' # Unset, LateRate(on_time_rate'))
    /\ avg_discount_late' = Assign(late_rate' # Unset, AvgDiscountLate(filtered_df'))
    /\ avg_calls_late' = Assign(avg_discount_late' # Unset, AvgCallsLate(filtered_df'))
    /\ high_value_late_rate' =
           Assign(avg_calls_late' # Unset, HighValueLateRate(filtered_df'))
    /\ error' = IF high_value_late_rate' = Unset THEN "exception" ELSE "none"
    /\ fig1' = IF error' = "none" THEN Histogram(filtered_df') ELSE << >>
    /\ UNCHANGED Train_csv

Init ==
    /\ Train_csv \in Datasets
    /\ cache = NotLoaded
    /\ df = << >>
    /\ shipment_mode = {}
    /\ warehouse = {}
    /\ product_importance = {}
    /\ gender = {}
    /\ filtered_df = << >>
    /\ total_orders = 0
    /\ on_time_rate = Unset
    /\ late_rate = Unset
    /\ avg_discount_late = Unset
    /\ avg_calls_late = Unset
    /\ high_value_late_rate = Unset
    /\ fig1 = << >>
    /\ error = "none"

\* Session start: every multiselect returns its default, all options
FirstRun ==
    /\ ~cache.loaded
    /\ LET frame == AddOnTime(load_data(cache))
       IN  Script(frame,
                  Range(Options(frame, "Mode_of_Shipment")),
                  Range(Options(frame, "Warehouse_block")),
                  Range(Options(frame, "Product_importance")),
                  Range(Options(frame, "Gender")))

Toggle(sel, v) == IF v \in sel THEN sel \ {v} ELSE sel \cup {v}

\* The user adds or removes one option of a multiselect; the script reruns
SelectShipmentMode ==
    /\ cache.loaded
    /\ LET frame == AddOnTime(load_data(cache))
       IN  \E v \in Range(Options(frame, "Mode_of_Shipment")) :
              Script(frame, Toggle(shipment_mode, v), warehouse, product_importance, gender)

SelectWarehouse ==
    /\ cache.loaded
    /\ LET frame == AddOnTime(load_data(cache))
       IN  \E v \in Range(Options(frame, "Warehouse_block")) :
              Script(frame, shipment_mode, Toggle(warehouse, v), product_importance, gender)

SelectProductImportance ==
    /\ cache.loaded
    /\ LET frame == AddOnTime(load_data(cache))
       IN  \E v \in Range(Options(frame, "Product_importance")) :
              Script(frame, shipment_mode, warehouse, Toggle(product_importance, v), gender)

SelectGender ==
    /\ cache.loaded
    /\ LET frame == AddOnTime(load_data(cache))
       IN  \E v \in Range(Options(frame, "Gender")) :
              Script(frame, shipment_mode, warehouse, product_importance, Toggle(gender, v))

\* A rerun with the widgets untouched
Rerun ==
    /\ cache.loaded
    /\ Script(AddOnTime(load_data(cache)), shipment_mode, warehouse, product_importance, gender)

Next ==
    \/ FirstRun
    \/ SelectShipmentMode
    \/ SelectWarehouse
    \/ SelectProductImportance
    \/ SelectGender
    \/ Rerun

Spec == Init /\ [][Next]_vars

----------------------------------------------------------------------------
(* What the claims speak of, stated over the state without the operators   *)
(* of the model                                                            *)

\* The explicit per-metric absence that the specification calls
\* UndefinedMetric: neither a number nor not-a-number
UndefinedMetric == [kind |-> "undefined", n |-> 0, d |-> 1]

\* The script has run at least once
Ran == cache.loaded

\* Row r passes the four membership tests of the current FilterSpec
PassesWith(r, sm, wh, pi, ge) ==
    /\ r.Mode_of_Shipment \in sm
    /\ r.Warehouse_block \in wh
    /\ r.Product_importance \in pi
    /\ r.Gender \in ge

Passes(r) == PassesWith(r, shipment_mode, warehouse, product_importance, gender)

\* The j-th smallest element of a set of indices
Nth(S, j) == CHOOSE i \in S : Cardinality({ k \in S : k < i }) = j - 1

\* seq is the subsequence of rows at the indices of S, in increasing order
IsSubsequenceAt(seq, rows, S) ==
    /\ Len(seq) = Cardinality(S)
    /\ \A j \in 1..Len(seq) : seq[j] = rows[Nth(S, j)]

\* Row r of the dataframe is row c of the file with OnTime added
SameRow(r, c) ==
    /\ DOMAIN r = DOMAIN c \cup {"OnTime"}
    /\ \A f \in DOMAIN c : r[f] = c[f]
    /\ r.OnTime = c.Reached_on_Time_Y_N

RECURSIVE SumOver(_, _, _)
SumOver(S, rows, col) ==
    IF S = {} THEN 0
    ELSE LET i == CHOOSE k \in S : TRUE
         IN  rows[i][col] + SumOver(S \ {i}, rows, col)

\* The sum of f over the set S of its arguments
RECURSIVE SumValues(_, _)
SumValues(f, S) ==
    IF S = {} THEN 0
    ELSE LET p == CHOOSE q \in S : TRUE IN f[p] + SumValues(f, S \ {p})

ViewIdx == 1..Len(filtered_df)
OnTimeIdx == { i \in ViewIdx : filtered_df[i].OnTime = 1 }
LateIdx == { i \in ViewIdx : filtered_df[i].OnTime = 0 }

\* Twice the median cost of the view: the sum of the two middle costs in
\* sorted order, which coincide when the view has an odd number of rows
Ranked(k) ==
    CHOOSE c \in { filtered_df[i].Cost_of_the_Product : i \in ViewIdx } :
        /\ Cardinality({ i \in ViewIdx : filtered_df[i].Cost_of_the_Product < c }) < k
        /\ Cardinality({ i \in ViewIdx : filtered_df[i].Cost_of_the_Product <= c }) >= k
TwiceMedianCost == Ranked((Len(filtered_df) + 1) \div 2) + Ranked(Len(filtered_df) \div 2 + 1)

\* The records of the view whose cost is strictly above the view's median
HighValueIdx ==
    IF ViewIdx = {} THEN {}
    ELSE { i \in ViewIdx : 2 * filtered_df[i].Cost_of_the_Product > TwiceMedianCost }

\* 100 * a / b
Percent(a, b) == Rat(100 * a, b)

IsNum(x) == x.kind = "num"

SomeSetEmpty ==
    shipment_mode = {} \/ warehouse = {} \/ product_importance = {} \/ gender = {}

FullSelection ==
    /\ shipment_mode = { df[i].Mode_of_Shipment : i \in 1..Len(df) }
    /\ warehouse = { df[i].Warehouse_block : i \in 1..Len(df) }
    /\ product_importance = { df[i].Product_importance : i \in 1..Len(df) }
    /\ gender = { df[i].Gender : i \in 1..Len(df) }

----------------------------------------------------------------------------
(* Claims *)

\* C1: the FilteredView is exactly the subsequence of the dataset's rows, in
\* their original order, whose shipment mode, warehouse block, product
\* importance and gender are each in the corresponding accepted set.
C1_FilterIsExactSubsequence ==
    Ran => IsSubsequenceAt(filtered_df, df, { i \in 1..Len(df) : Passes(df[i]) })

\* C1 witness: a view that keeps some rows and drops a row that fails only the
\* gender test, with a kept row after the dropped one.
C1_Witness ==
    /\ Ran
    /\ \E i, j \in 1..Len(df) :
          /\ i < j
          /\ ~Passes(df[i])
          /\ df[i].Mode_of_Shipment \in shipment_mode
          /\ df[i].Warehouse_block \in warehouse
          /\ df[i].Product_importance \in product_importance
          /\ Passes(df[j])
    /\ Len(filtered_df) >= 2

\* C2 (as claimed): with an empty FilteredView, onTimeRate and lateRate are the
\* explicit absence UndefinedMetric, not a number and not not-a-number.
C2_EmptyViewSignalsUndefined ==
    (Ran /\ total_orders = 0) =>
        (on_time_rate = UndefinedMetric /\ late_rate = UndefinedMetric)

\* C3: when at least one accepted set is empty the FilteredView has no
\* records, and the run ends without an error.
C3_EmptySetGivesEmptyView ==
    (Ran /\ SomeSetEmpty) => (filtered_df = << >> /\ error = "none")

\* C3 witness: a non-empty dataset with exactly the gender set emptied.
C3_Witness ==
    /\ Ran
    /\ Len(df) >= 2
    /\ gender = {}
    /\ shipment_mode # {} /\ warehouse # {} /\ product_importance # {}
    /\ filtered_df = << >>

\* C4: with every accepted set equal to the full set of values of its field,
\* which is what every widget returns at session start, the FilteredView
\* equals the dataset row for row.
C4_IdentityFilter ==
    [][ /\ FirstRun => (FullSelection' /\ Len(df') = Len(Train_csv))
        /\ (Ran' /\ FullSelection') => filtered_df' = df' ]_vars

\* C4 witness: the full selection over a dataset in which every field takes
\* two values.
C4_Witness ==
    /\ Ran
    /\ FullSelection
    /\ Cardinality(shipment_mode) = 2 /\ Cardinality(warehouse) = 2
    /\ Cardinality(product_importance) = 2 /\ Cardinality(gender) = 2
    /\ filtered_df = df

\* C5 (as claimed): on a non-empty view without late records avgCallsLate and
\* avgDiscountLate are UndefinedMetric and onTimeRate is 100.
C5_NoLateRecords ==
    (Ran /\ ViewIdx # {} /\ LateIdx = {}) =>
        /\ avg_calls_late = UndefinedMetric
        /\ avg_discount_late = UndefinedMetric
        /\ on_time_rate = Rat(100, 1)

\* C6: every metric whose own inputs are non-empty has its correct value,
\* whether or not another metric is undefined, and no run is aborted.
C6_MetricsIndependent ==
    Ran =>
        /\ error = "none"
        /\ ViewIdx # {} =>
              /\ on_time_rate = Percent(Cardinality(OnTimeIdx), Len(filtered_df))
              /\ late_rate = Percent(Cardinality(LateIdx), Len(filtered_df))
        /\ LateIdx # {} =>
              /\ avg_calls_late =
                    Rat(SumOver(LateIdx, filtered_df, "Customer_care_calls"),
                        Cardinality(LateIdx))
              /\ avg_discount_late =
                    Rat(SumOver(LateIdx, filtered_df, "Discount_offered"),
                        Cardinality(LateIdx))
        /\ HighValueIdx # {} =>
              high_value_late_rate =
                  Percent(Cardinality(HighValueIdx \cap LateIdx), Cardinality(HighValueIdx))

\* C6 witness: the late means are undefined while the rates over the view and
\* over its high-value records are numbers; and the converse.
C6_Witness ==
    /\ Ran
    /\ LateIdx = {} /\ ~IsNum(avg_calls_late) /\ ~IsNum(avg_discount_late)
    /\ HighValueIdx # {}
    /\ IsNum(on_time_rate) /\ IsNum(late_rate) /\ IsNum(high_value_late_rate)

\* C7 (as claimed): highValueLateRate is the late percentage over the records
\* strictly above the view's own median cost, and UndefinedMetric when there
\* is no such record.
C7_HighValueLateRate ==
    Ran =>
        high_value_late_rate =
            IF HighValueIdx = {} THEN UndefinedMetric
            ELSE Percent(Cardinality(HighValueIdx \cap LateIdx), Cardinality(HighValueIdx))

C9_GroupCount ==
    Ran =>
        LET bars == Bars(fig1)
            pair(i) == <<filtered_df[i].Mode_of_Shipment, filtered_df[i].OnTime>>
            observed == { pair(i) : i \in ViewIdx }
        IN  /\ DOMAIN bars = observed
            /\ \A p \in observed : bars[p] = Cardinality({ i \in ViewIdx : pair(i) = p })
            /\ SumValues(bars, DOMAIN bars) = total_orders
            /\ error = "none"

\* C9 witness: a view in which one shipment mode occurs with both flags and
\* the other with one only, so that a pair is absent.
C9_Witness ==
    /\ Ran
    /\ Len(filtered_df) >= 3
    /\ Cardinality(DOMAIN Bars(fig1)) = 3
    /\ \E p \in DOMAIN Bars(fig1) : Bars(fig1)[p] >= 2

\* C10: on a non-empty view totalOrders is the row count, onTimeRate is
\* 100 * (on-time records) / totalOrders, lateRate is 100 - onTimeRate, both
\* lie in [0, 100] and sum to 100, and the late means are taken over exactly
\* the late records.
C10_RatesAndLateMeans ==
    (Ran /\ ViewIdx # {}) =>
        /\ total_orders = Len(filtered_df)
        /\ on_time_rate = Percent(Cardinality(OnTimeIdx), total_orders)
        /\ IsNum(late_rate)
        /\ late_rate.d = on_time_rate.d
        /\ late_rate.n + on_time_rate.n = 100 * on_time_rate.d
        /\ on_time_rate.n <= 100 * on_time_rate.d
        /\ LateIdx # {} =>
              /\ avg_calls_late.kind = "num"
              /\ avg_calls_late.n * Cardinality(LateIdx) =
                    avg_calls_late.d * SumOver(LateIdx, filtered_df, "Customer_care_calls")
              /\ avg_discount_late.kind = "num"
              /\ avg_discount_late.n * Cardinality(LateIdx) =
                    avg_discount_late.d * SumOver(LateIdx, filtered_df, "Discount_offered")

\* C10 witness: the view with flags [1,0,1,1], late calls [5] and late
\* discount [20], giving 75, 25, 5 and 20.
C10_Witness ==
    /\ Ran
    /\ [i \in ViewIdx |-> filtered_df[i].OnTime] = <<1, 0, 1, 1>>
    /\ filtered_df[2].Customer_care_calls = 5
    /\ filtered_df[2].Discount_offered = 20
    /\ on_time_rate = Rat(75, 1)
    /\ late_rate = Rat(25, 1)
    /\ avg_calls_late = Rat(5, 1)
    /\ avg_discount_late = Rat(20, 1)

====
